---- MODULE Spec2Model ----
(***************************************************************************)
(* GammaRay UIStateManager (src/ui/uistatemanager.cpp): persistence of the *)
(* window geometry and of splitter / header layouts in a QSettings store.  *)
(*                                                                         *)
(* The manager runs on the GUI thread.  A handler that resizes a widget    *)
(* programmatically gets the resulting Resize events delivered to its own  *)
(* eventFilter synchronously, i.e. nested in the handler.  The handlers    *)
(* that can be re-entered (setup and widgetResized) are therefore modelled *)
(* as frames on a call stack, one step per restore function; the events    *)
(* a step raised are delivered before the frame goes on.  All the other    *)
(* handlers are single atomic actions.                                     *)
(***************************************************************************)
EXTENDS Integers, Sequences, FiniteSets, TLC

(* ------------------------------ bounds -------------------------------- *)

\* Number of distinct positions the user can drag a handle / a section to.
MaxPos == 1
\* Largest column count a header's model can have.
MaxCols == 2

(* ------------------------- program constants -------------------------- *)

\* QSize(1024, 768): the default window size of restoreWindowState.
DefaultWidth == 1024
DefaultHeight == 768

(* --------------------------- Qt value types --------------------------- *)

\* A QVariant of a default-size spec: an int (pixels) or a string (percent).
Px(n) == [type |-> "Int", int |-> n, str |-> <<>>]
Pct(s) == [type |-> "String", int |-> 0, str |-> s]

\* An empty QByteArray, and the serialized forms Qt produces.
EmptyBlob == [kind |-> "", sizes |-> <<>>]
Blob(k, s) == [kind |-> k, sizes |-> s]

Digits == {"0", "1", "2", "3", "4", "5", "6", "7", "8", "9"}
DigitVal(c) ==
    CASE c = "0" -> 0 [] c = "1" -> 1 [] c = "2" -> 2 [] c = "3" -> 3
      [] c = "4" -> 4 [] c = "5" -> 5 [] c = "6" -> 6 [] c = "7" -> 7
      [] c = "8" -> 8 [] c = "9" -> 9

RECURSIVE DigitsVal(_)
DigitsVal(s) ==
    IF s = <<>> THEN 0
    ELSE DigitsVal(SubSeq(s, 1, Len(s) - 1)) * 10 + DigitVal(s[Len(s)])

AllDigits(s) == s # <<>> /\ \A i \in 1..Len(s) : s[i] \in Digits

\* QString::toInt(): 0 when the text is not a number.
toInt(s) ==
    IF s # <<>> /\ s[1] = "-"
    THEN IF AllDigits(Tail(s)) THEN 0 - DigitsVal(Tail(s)) ELSE 0
    ELSE IF AllDigits(s) THEN DigitsVal(s) ELSE 0

\* C++ integer division truncates toward zero.
CDiv(a, b) ==
    IF a >= 0 THEN a \div b ELSE 0 - ((0 - a) \div b)

\* QString::toLower() on the object names of the scenes.
toLower(n) ==
    CASE n = "A" -> "a"
      [] n = "Win" -> "win"
      [] OTHER -> n

RECURSIVE SumSeq(_)
SumSeq(s) == IF s = <<>> THEN 0 ELSE Head(s) + SumSeq(Tail(s))

(* ------------------------------ helpers ------------------------------- *)

\* size.left(size.length() - 1).toInt()
percentToInt(size) == toInt(SubSeq(size, 1, Len(size) - 1))

\* distributeSpace with the last handle left out of the free space.
distributeSpaceOneHandleShort(sizes, size, handleSize) ==
    LET its == {i \in 1..Len(sizes) : sizes[i] = -1}
        usedSpace == SumSeq([i \in 1..Len(sizes) |->
                               IF sizes[i] = -1 THEN 0 ELSE sizes[i]])
        freeSpace == size - usedSpace - (Len(sizes) * handleSize)
    IN  IF its = {} THEN sizes
        ELSE [i \in 1..Len(sizes) |->
                IF i \in its THEN CDiv(freeSpace, Cardinality(its))
                ELSE sizes[i]]

\* Every -1 entry gets an equal share of what the other entries and the
\* handles leave of `size`.
distributeSpace(sizes, size, handleSize) ==
    LET its == {i \in 1..Len(sizes) : sizes[i] = -1}
        usedSpace == SumSeq([i \in 1..Len(sizes) |->
                               IF sizes[i] = -1 THEN 0 ELSE sizes[i]])
        freeSpace == size - usedSpace - (Len(sizes) * handleSize) - handleSize
    IN  IF its = {} THEN sizes
        ELSE [i \in 1..Len(sizes) |->
                IF i \in its THEN CDiv(freeSpace, Cardinality(its))
                ELSE sizes[i]]

checkWidget(widget) == widget.objectName # ""

widgetGeometryKey(widget) == widget.objectName \o "Geometry"

widgetStateKey(widget) == widget.objectName \o "State"

(* ----------------------------- the scenes ----------------------------- *)

Names == {"", "win", "a", "A", "b", "h", "a/b"}

\* The default-size specs the tools register with setDefaultSizes before
\* the root is shown, keyed by object name.
SplitterSpecs ==
    [n \in Names |->
        CASE n = "a" -> <<Px(200), Pct(<<"-", "1", "%">>)>>
          [] n = "b" -> <<Pct(<<"2", "5", "%">>), Pct(<<"-", "1", "%">>), Px(100)>>
          [] n = "A" -> <<Px(900), Pct(<<"-", "1", "%">>)>>
          [] n = "win" -> <<Pct(<<"-", "1", "%">>), Pct(<<"-", "1", "%">>)>>
          [] OTHER -> <<>>]

HeaderSpecs ==
    [n \in Names |->
        CASE n = "h" -> <<Px(120), Pct(<<"5", "0", "%">>)>>
          [] n = "a" -> <<Pct(<<"-", "1", "%">>), Px(80)>>
          [] OTHER -> <<>>]

\* A freshly constructed QSplitter: horizontal or vertical, not yet laid out.
NewSplitter(name, orientation, handleWidth) ==
    [objectName |-> name,
     orientation |-> orientation,
     handleWidth |-> handleWidth,
     count |-> IF SplitterSpecs[name] = <<>> THEN 2 ELSE Len(SplitterSpecs[name]),
     sizes |-> [i \in 1..(IF SplitterSpecs[name] = <<>> THEN 2
                          ELSE Len(SplitterSpecs[name])) |-> 0],
     customized |-> FALSE,
     connected |-> FALSE,
     lastSaved |-> EmptyBlob]

\* A freshly constructed header of a view: every section at Qt's default
\* section size.  isHeaderView: it is GammaRay's HeaderView subclass.
\* History: saved, the manager wrote its state; readCount / savedCount, the
\* column count it had when the manager last read / wrote its state key
\* (-1: never).
NewHeader(name, isHeaderView) ==
    [objectName |-> name,
     isHeaderView |-> isHeaderView,
     count |-> 2,
     sizes |-> <<100, 100>>,
     customized |-> FALSE,
     connected |-> FALSE,
     viewFiltered |-> FALSE,
     saved |-> FALSE,
     readCount |-> -1,
     savedCount |-> -1]

\* header->sectionResizeMode(i) and header->sectionSizeHint(i) of the scenes.
sectionResizeMode(i) ==
    CASE i = 1 -> "Interactive" [] i = 2 -> "Fixed" [] OTHER -> "Stretch"
sectionSizeHint(i) == 30 + i

\* Window sizes the window manager can give the root.
Geometries == {<<DefaultWidth, DefaultHeight>>, <<800, 600>>}

\* Layouts the user can drag a splitter to, and section sizes.
UserSplitterSizes(n, p) == [i \in 1..n |-> 100 * p + i]
UserSectionSize(p) == 40 * p

(* ------------------------------ state --------------------------------- *)

VARIABLES
    m_widget,                \* the root widget: object name, is it a QMainWindow
    m_defaultSplitterSizes,  \* object name -> registered default-size spec
    m_defaultHeaderSizes,
    m_stateSettings,         \* the QSettings store: open groups and key -> blob
    m_initialized,
    m_resizing,
    splitters,               \* m_widget->findChildren<QSplitter *>(), in order
    headers,                 \* m_widget->findChildren<QHeaderView *>(), in order
    geometry,                \* <<width, height>> of the root
    visible,                 \* the root is shown
    stack,                   \* the setup / widgetResized calls in progress
    everShown,               \* history: a Show event of the root was processed
    storeTouched,            \* history: the store was read or written
    userActed,               \* history: the user moved a handle or a section
    aborted,                 \* a Q_ASSERT failed in a debug build
    o_widget                 \* the root widget of a second manager on the store

statics == <<m_widget, m_defaultSplitterSizes, m_defaultHeaderSizes, o_widget>>

vars == <<m_widget, m_defaultSplitterSizes, m_defaultHeaderSizes,
          m_stateSettings, m_initialized, m_resizing, splitters, headers,
          geometry, visible, stack, everShown, storeTouched, userActed,
          aborted, o_widget>>

\* The object an event is sent to: 0 is the root, h >= 1 the view of header h.
Root == 0

SplitterIds == [i \in 1..Len(splitters) |-> i]
HeaderIds == [i \in 1..Len(headers) |-> i]

\* The views the manager installed its event filter on.
FilteredViews == SelectSeq(HeaderIds, LAMBDA h : headers[h].viewFiltered)

(* --------------------------- the QSettings store ---------------------- *)

RECURSIVE GroupPath(_)
GroupPath(groups) ==
    IF groups = <<>> THEN ""
    ELSE IF Len(groups) = 1 THEN groups[1]
    ELSE GroupPath(SubSeq(groups, 1, Len(groups) - 1)) \o "/" \o groups[Len(groups)]

FullKey(settings, key) ==
    IF settings.group = <<>> THEN key
    ELSE GroupPath(settings.group) \o "/" \o key

\* beginGroup that opens no group: the keys stay at the top level.
beginGroupNone(settings, prefix) == settings

beginGroup(settings, prefix) ==
    [settings EXCEPT !.group = Append(@, prefix)]

\* reset() without its endGroup(): the group stays open.
endGroupForgotten(settings) == settings

\* QSettings::endGroup() warns and does nothing when no group is open.
endGroup(settings) ==
    [settings EXCEPT !.group = IF @ = <<>> THEN @ ELSE SubSeq(@, 1, Len(@) - 1)]

\* value(key).toByteArray(): empty when the key is not there.
value(settings, key) ==
    IF FullKey(settings, key) \in DOMAIN settings.data
    THEN settings.data[FullKey(settings, key)]
    ELSE EmptyBlob

setValue(settings, key, blob) ==
    [settings EXCEPT !.data = (FullKey(settings, key) :> blob) @@ @]

(* ------------------------- Qt widget operations ----------------------- *)

\* splitter->width() or height(): the splitters span the root.
Extent(orientation) ==
    IF orientation = "Horizontal" THEN geometry[1] ELSE geometry[2]

\* QSplitter::saveState / restoreState; restoreState refuses a blob that is
\* not a splitter's or has another pane count.
SplitterSaveState(sp) == Blob("splitter", sp.sizes)
SplitterRestoreOk(sp, blob) ==
    blob.kind = "splitter" /\ Len(blob.sizes) = sp.count

\* QHeaderView::saveState / restoreState.
HeaderSaveState(hd) == Blob("header", hd.sizes)
HeaderRestoreOk(hd, blob) ==
    blob.kind = "header" /\ Len(blob.sizes) = hd.count

\* QMainWindow::saveGeometry / saveState.
WindowSaveGeometry == Blob("geometry", geometry)
WindowSaveState == Blob("window", <<>>)

(* ------------------------------- restore ------------------------------ *)

\* uistatemanager.cpp defaultSizes(QSplitter *) / defaultSizes(QHeaderView *)
defaultSplitterSizes(sp) ==
    IF checkWidget(sp) THEN m_defaultSplitterSizes[sp.objectName] ELSE <<>>
defaultHeaderSizes(hd) ==
    IF checkWidget(hd) THEN m_defaultHeaderSizes[hd.objectName] ELSE <<>>

\* One entry of a spec, resolved against `extent`: pixels, or a percentage
\* of the extent, or -1 for "the rest".
ResolveSize(entry, extent) ==
    IF entry.type = "Int" THEN entry.int
    ELSE IF percentToInt(entry.str) = -1 THEN -1
         ELSE CDiv(extent * percentToInt(entry.str), 100)

\* The sizes restoreSplitterState hands to setSizes.
SplitterDefaultSizes(sp) ==
    distributeSpace([i \in 1..Len(defaultSplitterSizes(sp)) |->
                        ResolveSize(defaultSplitterSizes(sp)[i], Extent(sp.orientation))],
                    Extent(sp.orientation), sp.handleWidth)

\* restoreSplitterState without the m_resizing test around restoreState.
RestoreSplitterFromUnguarded(settings, sp) ==
    IF ~checkWidget(sp) THEN sp
    ELSE LET state == value(settings, widgetStateKey(sp))
         IN  IF state = EmptyBlob
             THEN IF defaultSplitterSizes(sp) # <<>>
                  THEN [sp EXCEPT !.sizes = SplitterDefaultSizes(sp)]
                  ELSE sp
             ELSE [sp EXCEPT !.sizes = IF SplitterRestoreOk(sp, state)
                                       THEN state.sizes ELSE @,
                             !.customized = TRUE]

\* The body of restoreSplitterState's loop for one splitter, on the store
\* `settings`.
RestoreSplitterFrom(settings, sp) ==
    IF ~checkWidget(sp) THEN sp
    ELSE LET state == value(settings, widgetStateKey(sp))
         IN  IF state = EmptyBlob
             THEN IF defaultSplitterSizes(sp) # <<>>
                  THEN [sp EXCEPT !.sizes = SplitterDefaultSizes(sp)]
                  ELSE sp
             ELSE IF ~m_resizing
                  THEN [sp EXCEPT !.sizes = IF SplitterRestoreOk(sp, state)
                                            THEN state.sizes ELSE @,
                                  !.customized = TRUE]
                  ELSE sp

\* restoreSplitterState(splitter): `which` is the one splitter or all.
restoreSplitterState(which) ==
    [i \in DOMAIN splitters |->
        IF i \in which THEN RestoreSplitterFrom(m_stateSettings, splitters[i])
        ELSE splitters[i]]

\* The Q_ASSERT of restoreHeaderState fails for this header.
HeaderAssertFails(hd) ==
    /\ checkWidget(hd) /\ hd.count # 0
    /\ value(m_stateSettings, widgetStateKey(hd)) = EmptyBlob
    /\ defaultHeaderSizes(hd) # <<>>
    /\ Len(defaultHeaderSizes(hd)) # hd.count

\* The size resizeSection(i, ...) is called with, or the old one when the
\* section is not resized (another resize mode, or no such section).
HeaderDefaultSize(hd, i) ==
    LET size == ResolveSize(defaultHeaderSizes(hd)[i], geometry[1])
    IN  IF sectionResizeMode(i) \in {"Interactive", "Fixed"}
        THEN IF size = -1 THEN sectionSizeHint(i) ELSE size
        ELSE hd.sizes[i]

\* restoreHeaderState skips only the headers without a name.
HeaderIsRestoredAnyCount(hd) == checkWidget(hd)

\* restoreHeaderState goes on to read the state key of this header.
HeaderIsRestored(hd) == checkWidget(hd) /\ hd.count # 0

\* The body of restoreHeaderState's loop for one header, on the store
\* `settings`.
RestoreHeaderFrom(settings, hd) ==
    IF ~HeaderIsRestored(hd) THEN hd
    ELSE LET state == value(settings, widgetStateKey(hd))
             read == [hd EXCEPT !.readCount = hd.count]
         IN  IF state = EmptyBlob
             THEN IF defaultHeaderSizes(hd) # <<>>
                  THEN [read EXCEPT !.sizes = [i \in 1..hd.count |->
                                                 IF i <= Len(defaultHeaderSizes(hd))
                                                 THEN HeaderDefaultSize(hd, i)
                                                 ELSE hd.sizes[i]]]
                  ELSE read
             ELSE IF ~m_resizing
                  THEN [read EXCEPT !.sizes = IF HeaderRestoreOk(hd, state)
                                              THEN state.sizes ELSE @,
                                    !.customized = TRUE]
                  ELSE read

restoreHeaderState(hds, which) ==
    [i \in DOMAIN hds |->
        IF i \in which THEN RestoreHeaderFrom(m_stateSettings, hds[i]) ELSE hds[i]]

\* The geometry restoreWindowState leaves the root with.
restoreWindowState ==
    IF ~m_widget.isMainWindow THEN geometry
    ELSE LET geo == value(m_stateSettings, widgetGeometryKey(m_widget))
         IN  IF geo = EmptyBlob THEN <<DefaultWidth, DefaultHeight>>
             ELSE IF ~m_resizing /\ geo.kind = "geometry" THEN geo.sizes
             ELSE geometry

(* -------------------------------- save -------------------------------- *)

\* saveWindowState that forgets the window state (toolbars, docks).
saveWindowStateGeometryOnly(settings) ==
    IF m_widget.isMainWindow
    THEN setValue(settings, widgetGeometryKey(m_widget), WindowSaveGeometry)
    ELSE settings

saveWindowState(settings) ==
    IF m_widget.isMainWindow
    THEN setValue(setValue(settings, widgetGeometryKey(m_widget), WindowSaveGeometry),
                  widgetStateKey(m_widget), WindowSaveState)
    ELSE settings

\* The customized test of saveSplitterState, inverted.
SplitterIsSavedInverted(sp) == checkWidget(sp) /\ ~sp.customized

SplitterIsSaved(sp) == checkWidget(sp) /\ sp.customized

\* saveSplitterState: the splitters `which` (indices, in order) are written
\* one after the other.
RECURSIVE saveSplitterState(_, _, _)
saveSplitterState(settings, spls, which) ==
    IF which = <<>> THEN settings
    ELSE saveSplitterState(
            IF SplitterIsSaved(spls[Head(which)])
            THEN setValue(settings, widgetStateKey(spls[Head(which)]),
                          SplitterSaveState(spls[Head(which)]))
            ELSE settings,
            spls, Tail(which))

HeaderIsSaved(hd) == checkWidget(hd) /\ hd.count # 0 /\ hd.customized

RECURSIVE saveHeaderState(_, _, _)
saveHeaderState(settings, hds, which) ==
    IF which = <<>> THEN settings
    ELSE saveHeaderState(
            IF HeaderIsSaved(hds[Head(which)])
            THEN setValue(settings, widgetStateKey(hds[Head(which)]),
                          HeaderSaveState(hds[Head(which)]))
            ELSE settings,
            hds, Tail(which))

\* What the save of `which` leaves in the widgets' history fields.
MarkSplittersSaved(spls, which) ==
    [i \in DOMAIN spls |->
        IF i \in which /\ SplitterIsSaved(spls[i])
        THEN [spls[i] EXCEPT !.lastSaved = SplitterSaveState(spls[i])]
        ELSE spls[i]]
MarkHeadersSaved(hds, which) ==
    [i \in DOMAIN hds |->
        IF i \in which /\ HeaderIsSaved(hds[i])
        THEN [hds[i] EXCEPT !.saved = TRUE, !.savedCount = hds[i].count]
        ELSE hds[i]]

saveState(settings) ==
    saveHeaderState(saveSplitterState(saveWindowState(settings), splitters, SplitterIds),
                    headers, HeaderIds)

(* ------------------------------- setup -------------------------------- *)

\* knownNames when setup's loop reaches widget i of `ws`, having started
\* the list with `base`.
RECURSIVE knownNames(_, _, _)
knownNames(ws, base, i) ==
    IF i = 1 THEN base
    ELSE LET known == knownNames(ws, base, i - 1)
             w == ws[i - 1]
         IN  IF checkWidget(w) /\ toLower(w.objectName) \notin known
             THEN known \cup {toLower(w.objectName)}
             ELSE known

\* setup connects widget i of `ws`: it has a name no earlier widget has.
Accepted(ws, base, i) ==
    checkWidget(ws[i]) /\ toLower(ws[i].objectName) \notin knownNames(ws, base, i)

RootNames == {toLower(m_widget.objectName)}

\* The header loop starts from the root's name only, as if the names of the
\* splitters had been kept in a set of their own.
SplitterKnownNamesForgotten == RootNames

SplitterKnownNames == knownNames(splitters, RootNames, Len(splitters) + 1)

\* A call of setup or widgetResized in progress.
Frame(fn, from, pc, widget, saved) ==
    [fn |-> fn, from |-> from, pc |-> pc, widget |-> widget, saved |-> saved,
     pending |-> <<>>]

\* setup() without the test of the root's name.
setupUnchecked(from, settings, initialized) ==
    /\ m_initialized' = TRUE
    /\ m_stateSettings' = beginGroup(settings, "UiState/" \o m_widget.objectName)
    /\ splitters' = [i \in DOMAIN splitters |->
           [splitters[i] EXCEPT !.connected =
               @ \/ Accepted(splitters, RootNames, i)]]
    /\ headers' = [i \in DOMAIN headers |->
           [headers[i] EXCEPT
               !.connected = @ \/ Accepted(headers, SplitterKnownNames, i),
               !.viewFiltered = @ \/ Accepted(headers, SplitterKnownNames, i)]]
    /\ stack' = <<Frame("setup", from, "window", Root, FALSE)>>

\* setup() up to its call of restoreState(), entered with the store `settings`
\* and m_initialized = `initialized`; the restore functions are the steps of
\* the frame it leaves on the stack.
setup(from, settings, initialized) ==
    IF ~checkWidget(m_widget)
    THEN /\ m_stateSettings' = settings
         /\ m_initialized' = initialized
         /\ UNCHANGED <<splitters, headers, stack>>
    ELSE /\ m_initialized' = TRUE
         /\ m_stateSettings' = beginGroup(settings, "UiState/" \o m_widget.objectName)
         /\ splitters' = [i \in DOMAIN splitters |->
                [splitters[i] EXCEPT !.connected =
                    @ \/ Accepted(splitters, RootNames, i)]]
         /\ headers' = [i \in DOMAIN headers |->
                [headers[i] EXCEPT
                    !.connected = @ \/ Accepted(headers, SplitterKnownNames, i),
                    !.viewFiltered = @ \/ Accepted(headers, SplitterKnownNames, i)]]
         /\ stack' = <<Frame("setup", from, "window", Root, FALSE)>>

(* ------------------------------ eventFilter --------------------------- *)

\* eventFilter lets every Resize through, whatever m_resizing says.
ResizePassesUnguarded == m_initialized

\* The condition under which eventFilter calls widgetResized for a Resize.
ResizePasses == m_initialized /\ ~m_resizing

\* The Resize branch of eventFilter for `object`, on the call stack `stk`:
\* widgetResized(object) starts, with m_resizing set until it returns.
ResizeFilter(stk, object) ==
    IF ResizePasses
    THEN /\ stack' = Append(stk, Frame("widgetResized", "resize",
                                       IF object = Root THEN "splitters" ELSE "headers",
                                       object, m_resizing))
         /\ m_resizing' = TRUE
    ELSE /\ stack' = stk
         /\ UNCHANGED m_resizing

Idle == stack = <<>> /\ ~aborted
Top == stack[Len(stack)]
Running == stack # <<>> /\ ~aborted
WithTop(f) == [stack EXCEPT ![Len(stack)] = f]

(* ------------------------------- Init --------------------------------- *)

\* The widget trees the manager is run on: the names of the root, of the
\* splitters and of the headers, in findChildren order.
Scenes ==
    {[root |-> "win", mainWindow |-> TRUE, splitters |-> <<"a", "b">>,
      headers |-> <<"h">>, headerView |-> TRUE],
     [root |-> "win", mainWindow |-> TRUE, splitters |-> <<"a", "a">>,
      headers |-> <<"h">>, headerView |-> TRUE],
     [root |-> "win", mainWindow |-> TRUE, splitters |-> <<"a", "A">>,
      headers |-> <<"h">>, headerView |-> TRUE],
     [root |-> "win", mainWindow |-> TRUE, splitters |-> <<"a", "win">>,
      headers |-> <<"h">>, headerView |-> TRUE],
     [root |-> "win", mainWindow |-> TRUE, splitters |-> <<"a", "b">>,
      headers |-> <<"a">>, headerView |-> TRUE],
     [root |-> "win", mainWindow |-> TRUE, splitters |-> <<"a", "">>,
      headers |-> <<"">>, headerView |-> TRUE],
     [root |-> "", mainWindow |-> TRUE, splitters |-> <<"a", "b">>,
      headers |-> <<"h">>, headerView |-> TRUE],
     [root |-> "win", mainWindow |-> FALSE, splitters |-> <<"a", "b">>,
      headers |-> <<"h">>, headerView |-> FALSE],
     [root |-> "win", mainWindow |-> TRUE, splitters |-> <<"a/b", "b">>,
      headers |-> <<"h">>, headerView |-> TRUE]}

\* No second manager: a root without a name never gets one initialized.
NoWidget == [objectName |-> "", isMainWindow |-> FALSE]

\* The manager constructed on a root of one of `scenes`, the store empty,
\* and a second manager on one of the roots `others`.
InitWith(scenes, others) ==
    /\ o_widget \in others
    /\ \E sc \in scenes :
          /\ m_widget = [objectName |-> sc.root, isMainWindow |-> sc.mainWindow]
          /\ splitters = <<NewSplitter(sc.splitters[1], "Horizontal", 5),
                           NewSplitter(sc.splitters[2], "Vertical", 7)>>
          /\ headers = [i \in DOMAIN sc.headers |->
                           NewHeader(sc.headers[i], sc.headerView)]
    /\ m_defaultSplitterSizes =
          [n \in Names |->
              IF \E i \in DOMAIN splitters : splitters[i].objectName = n
              THEN SplitterSpecs[n] ELSE <<>>]
    /\ m_defaultHeaderSizes =
          [n \in Names |->
              IF \E i \in DOMAIN headers : headers[i].objectName = n
              THEN HeaderSpecs[n] ELSE <<>>]
    /\ m_stateSettings = [group |-> <<>>, data |-> <<>>]
    /\ m_initialized = FALSE
    /\ m_resizing = FALSE
    /\ geometry \in Geometries
    /\ visible = FALSE
    /\ stack = <<>>
    /\ everShown = FALSE
    /\ storeTouched = FALSE
    /\ userActed = FALSE
    /\ aborted = FALSE

Init == InitWith(Scenes, {NoWidget})

(* ------------------------- events of the root ------------------------- *)

\* eventFilter runs setup on every Show.
ShowRunsSetupAlways == TRUE

\* The condition under which eventFilter calls setup for a Show of the root.
ShowRunsSetup == ~m_initialized

\* eventFilter(m_widget, Show)
ShowEvent ==
    /\ Idle /\ ~visible
    /\ visible' = TRUE
    /\ everShown' = TRUE
    /\ IF ShowRunsSetup
       THEN setup("show", m_stateSettings, m_initialized)
       ELSE UNCHANGED <<m_initialized, m_stateSettings, splitters, headers, stack>>
    /\ UNCHANGED <<statics, m_resizing, geometry, storeTouched, userActed, aborted>>

\* eventFilter(m_widget, Hide)
HideEvent ==
    /\ Idle /\ visible
    /\ visible' = FALSE
    /\ IF m_initialized
       THEN /\ m_stateSettings' = saveState(m_stateSettings)
            /\ splitters' = MarkSplittersSaved(splitters, DOMAIN splitters)
            /\ headers' = MarkHeadersSaved(headers, DOMAIN headers)
            /\ storeTouched' =
                  (storeTouched \/ m_widget.isMainWindow
                   \/ (\E i \in DOMAIN splitters : SplitterIsSaved(splitters[i]))
                   \/ (\E j \in DOMAIN headers : HeaderIsSaved(headers[j])))
       ELSE UNCHANGED <<m_stateSettings, splitters, headers, storeTouched>>
    /\ UNCHANGED <<statics, m_initialized, m_resizing, geometry, stack,
                   everShown, userActed, aborted>>

\* eventFilter(m_widget, Resize): the window manager gave the root the size g.
ResizeRootEvent(g) ==
    /\ Idle /\ visible
    /\ g # geometry
    /\ geometry' = g
    /\ ResizeFilter(stack, Root)
    /\ UNCHANGED <<statics, m_stateSettings, m_initialized, splitters, headers,
                   visible, everShown, storeTouched, userActed, aborted>>

\* eventFilter(view, Resize) for the view of header h; the filter is on it.
ResizeViewEvent(h) ==
    /\ Idle /\ visible
    /\ headers[h].viewFiltered
    /\ ResizeFilter(stack, h)
    /\ UNCHANGED <<statics, m_stateSettings, m_initialized, splitters, headers,
                   geometry, visible, everShown, storeTouched, userActed, aborted>>

\* reset()
reset ==
    /\ Idle
    /\ setup("reset", endGroup(m_stateSettings), FALSE)
    /\ UNCHANGED <<statics, m_resizing, geometry, visible, everShown,
                   storeTouched, userActed, aborted>>

(* --------------------- signals of the child widgets ------------------- *)

\* The user drags a handle of splitter s: splitterMoved, and widgetCustomized
\* when setup connected it.
splitterMoved(s, p) ==
    /\ Idle /\ visible
    /\ userActed' = TRUE
    /\ LET moved == [splitters[s] EXCEPT
                        !.sizes = UserSplitterSizes(splitters[s].count, p)]
           custom == [splitters EXCEPT ![s] = [moved EXCEPT !.customized = TRUE]]
       IN  IF moved.connected
           THEN /\ m_stateSettings' = saveSplitterState(m_stateSettings, custom, <<s>>)
                /\ splitters' = MarkSplittersSaved(custom, {s})
                /\ storeTouched' = TRUE
           ELSE /\ splitters' = [splitters EXCEPT ![s] = moved]
                /\ UNCHANGED <<m_stateSettings, storeTouched>>
    /\ UNCHANGED <<statics, m_initialized, m_resizing, headers, geometry, visible,
                   stack, everShown, aborted>>

\* HeaderView::isState(HeaderView::ResizeSection) while a sectionResized
\* notification is handled: the resize comes from a direct interactive drag
\* of the user ("drag"), not from the manager's own resizes ("restore").
isStateResizeSection(cause) == cause = "drag"

\* widgetCustomized that takes every resize of a HeaderView for the user's.
HeaderCustomizedAnyResize(hd, interactive) == hd.isHeaderView

\* widgetCustomized for a header: it is a HeaderView in an interactive drag.
HeaderCustomized(hd, interactive) == hd.isHeaderView /\ interactive

\* The headers among `which` whose sections restoreHeaderState resized
\* (`restored` from `hds`) and whose sectionResized notification makes
\* widgetCustomized mark and save them.
RestoreCustomized(hds, restored, which) ==
    {h \in which :
        /\ restored[h].connected
        /\ restored[h].sizes # hds[h].sizes
        /\ HeaderCustomized(restored[h], isStateResizeSection("restore"))}

\* restoreHeaderState(which) on the headers `hds`, with the widgetCustomized
\* calls its resizes notify.
RestoreHeadersNotifying(hds, which) ==
    LET restored == restoreHeaderState(hds, which)
        notified == RestoreCustomized(hds, restored, which)
        custom == [h \in DOMAIN restored |->
                      IF h \in notified THEN [restored[h] EXCEPT !.customized = TRUE]
                      ELSE restored[h]]
    IN  /\ headers' = MarkHeadersSaved(custom, notified)
        /\ m_stateSettings' =
              saveHeaderState(m_stateSettings, custom,
                              SelectSeq(HeaderIds, LAMBDA h : h \in notified))

\* The user drags section i of header h: sectionResized, and widgetCustomized
\* when setup connected it.
sectionResized(h, i, p) ==
    /\ Idle /\ visible
    /\ i <= headers[h].count
    /\ sectionResizeMode(i) = "Interactive"
    /\ userActed' = TRUE
    /\ LET moved == [headers[h] EXCEPT !.sizes[i] = UserSectionSize(p)]
           custom == [headers EXCEPT ![h] = [moved EXCEPT !.customized = TRUE]]
       IN  IF moved.connected /\ HeaderCustomized(moved, isStateResizeSection("drag"))
           THEN /\ m_stateSettings' = saveHeaderState(m_stateSettings, custom, <<h>>)
                /\ headers' = MarkHeadersSaved(custom, {h})
                /\ storeTouched' = TRUE
           ELSE /\ headers' = [headers EXCEPT ![h] = moved]
                /\ UNCHANGED <<m_stateSettings, storeTouched>>
    /\ UNCHANGED <<statics, m_initialized, m_resizing, splitters, geometry, visible,
                   stack, everShown, aborted>>

\* A failed Q_ASSERT aborts a debug build and is compiled out of a release
\* build, which goes on.
AssertOutcomes(fails) == IF fails THEN {TRUE, FALSE} ELSE {FALSE}

\* The model of header h's view now has n columns: sectionCountChanged, and
\* headerSectionCountChanged when setup connected it.
headerSectionCountChanged(h, n) ==
    /\ Idle
    /\ n # headers[h].count
    /\ LET changed == [headers EXCEPT ![h] =
                          [@ EXCEPT !.count = n,
                                    !.sizes = [i \in 1..n |->
                                        IF i <= headers[h].count
                                        THEN headers[h].sizes[i] ELSE 100]]]
       IN  IF changed[h].connected
           THEN /\ RestoreHeadersNotifying(changed, {h})
                /\ aborted' \in AssertOutcomes(HeaderAssertFails(changed[h]))
                /\ storeTouched' = (storeTouched \/ n # 0)
           ELSE /\ headers' = changed
                /\ UNCHANGED <<m_stateSettings, aborted, storeTouched>>
    /\ UNCHANGED <<statics, m_initialized, m_resizing, splitters,
                   geometry, visible, stack, everShown, userActed>>

(* ------------------ steps of setup and widgetResized ------------------ *)

\* The Resize events a change of the root's size sends while the root is
\* shown: the layout resizes the views first, then the root's filter runs.
RootResizeEvents == Append(FilteredViews, Root)

\* restoreState() of setup: restoreWindowState()
RestoreWindowStep ==
    /\ Running /\ Top.pending = <<>> /\ Top.pc = "window"
    /\ geometry' = restoreWindowState
    /\ stack' = WithTop([Top EXCEPT !.pc = "splitters",
                                    !.pending = IF visible /\ geometry' # geometry
                                                THEN RootResizeEvents ELSE <<>>])
    /\ storeTouched' = (storeTouched \/ m_widget.isMainWindow)
    /\ UNCHANGED <<statics, m_stateSettings, m_initialized, m_resizing, splitters,
                   headers, visible, everShown, userActed, aborted>>

\* restoreSplitterState() of setup and of widgetResized(m_widget); the views
\* in the panes of a splitter whose sizes changed get a Resize.
RestoreSplittersStep ==
    /\ Running /\ Top.pending = <<>> /\ Top.pc = "splitters"
    /\ splitters' = restoreSplitterState(DOMAIN splitters)
    /\ stack' = WithTop([Top EXCEPT
            !.pc = "headers",
            !.pending = IF visible /\ \E i \in DOMAIN splitters :
                                         splitters'[i].sizes # splitters[i].sizes
                        THEN FilteredViews ELSE <<>>])
    /\ storeTouched' = (storeTouched \/ \E i \in DOMAIN splitters :
                                          checkWidget(splitters[i]))
    /\ UNCHANGED <<statics, m_stateSettings, m_initialized, m_resizing, headers,
                   geometry, visible, everShown, userActed, aborted>>

\* The headers the frame restores: all of them, or those of the resized view.
FrameHeaders(f) ==
    IF f.fn = "setup" \/ f.widget = Root THEN DOMAIN headers ELSE {f.widget}

\* restoreHeaderState() of setup and of widgetResized, and their return;
\* widgetResized's guard puts m_resizing back.
RestoreHeadersStep ==
    /\ Running /\ Top.pending = <<>> /\ Top.pc = "headers"
    /\ RestoreHeadersNotifying(headers, FrameHeaders(Top))
    /\ aborted' \in AssertOutcomes(\E h \in FrameHeaders(Top) :
                                      HeaderAssertFails(headers[h]))
    /\ stack' = SubSeq(stack, 1, Len(stack) - 1)
    /\ m_resizing' = IF Top.fn = "widgetResized" THEN Top.saved ELSE m_resizing
    /\ storeTouched' = (storeTouched \/ \E h \in FrameHeaders(Top) :
                            checkWidget(headers[h]) /\ headers[h].count # 0)
    /\ UNCHANGED <<statics, m_initialized, splitters, geometry,
                   visible, everShown, userActed>>

\* A Resize a step raised reaches eventFilter before the step's caller goes on.
DeliverResize ==
    /\ Running /\ Top.pending # <<>>
    /\ ResizeFilter(WithTop([Top EXCEPT !.pending = Tail(@)]), Head(Top.pending))
    /\ UNCHANGED <<statics, m_stateSettings, m_initialized, splitters, headers,
                   geometry, visible, everShown, storeTouched, userActed, aborted>>

(* --------------------------- the specification ------------------------ *)

Next ==
    \/ ShowEvent
    \/ HideEvent
    \/ \E g \in Geometries : ResizeRootEvent(g)
    \/ \E h \in DOMAIN headers : ResizeViewEvent(h)
    \/ reset
    \/ \E s \in DOMAIN splitters, p \in 1..MaxPos : splitterMoved(s, p)
    \/ \E h \in DOMAIN headers, i \in 1..MaxCols, p \in 1..MaxPos : sectionResized(h, i, p)
    \/ \E h \in DOMAIN headers, n \in 0..MaxCols : headerSectionCountChanged(h, n)
    \/ RestoreWindowStep
    \/ RestoreSplittersStep
    \/ RestoreHeadersStep
    \/ DeliverResize

Spec == Init /\ [][Next]_vars

(* ------------------ a second manager on the same store ---------------- *)

\* The roots a second manager is bound to, and the splitters under them.
OtherRoots ==
    {[objectName |-> "o", isMainWindow |-> FALSE],
     [objectName |-> "win", isMainWindow |-> TRUE],
     [objectName |-> "win/a", isMainWindow |-> FALSE]}
OtherSplitters == {"b"}

\* The roots of this manager when a second one runs beside it.
SharedScenes ==
    {sc \in Scenes : sc.root = "win" /\ sc.mainWindow /\ sc.headers = <<"h">>
                      /\ sc.splitters \in {<<"a", "b">>, <<"a/b", "b">>}}

\* The second manager's own QSettings object on the shared store, its group
\* opened by its setup.
OtherSettings ==
    beginGroup([group |-> <<>>, data |-> m_stateSettings.data],
               "UiState/" \o o_widget.objectName)

\* widgetCustomized of the second manager: the user moved its splitter n.
otherWidgetCustomized(n) ==
    /\ checkWidget(o_widget)
    /\ m_stateSettings' =
          [m_stateSettings EXCEPT !.data =
              setValue(OtherSettings, widgetStateKey([objectName |-> n]),
                       Blob("splitter", <<7, 7>>)).data]
    /\ UNCHANGED <<statics, m_initialized, m_resizing, splitters, headers,
                   geometry, visible, stack, everShown, storeTouched, userActed,
                   aborted>>

\* eventFilter(o_widget, Hide) of the second manager: saveWindowState.
otherHideEvent ==
    /\ checkWidget(o_widget) /\ o_widget.isMainWindow
    /\ m_stateSettings' =
          [m_stateSettings EXCEPT !.data =
              setValue(setValue(OtherSettings, widgetGeometryKey(o_widget),
                                Blob("geometry", <<800, 600>>)),
                       widgetStateKey(o_widget), WindowSaveState).data]
    /\ UNCHANGED <<statics, m_initialized, m_resizing, splitters, headers,
                   geometry, visible, stack, everShown, storeTouched, userActed,
                   aborted>>

NextShared ==
    \/ Next
    \/ \E n \in OtherSplitters : otherWidgetCustomized(n)
    \/ otherHideEvent

\* QSettings reads a '/' in a key as a group separator.
HasSlash(n) == n \in {"a/b", "win/a"}

\* The two managers at their construction; the second root has a '/' in its
\* name in the runs where a splitter of the first has one.
InitShared ==
    /\ InitWith(SharedScenes, OtherRoots)
    /\ HasSlash(o_widget.objectName) <=>
          \E i \in DOMAIN splitters : HasSlash(splitters[i].objectName)

SpecShared == InitShared /\ [][NextShared]_vars

(* ------------------------------ properties ---------------------------- *)

\* Widget i is one setup leaves out: it has no name, or the name (lower
\* case) of the root or of a widget enumerated before it.
ExcludedSplitter(i) == ~Accepted(splitters, RootNames, i)
ExcludedHeader(i) == ~Accepted(headers, SplitterKnownNames, i)

\* The keys of the root window in the store.
RootKeys ==
    {"UiState/" \o m_widget.objectName \o "/" \o widgetGeometryKey(m_widget),
     "UiState/" \o m_widget.objectName \o "/" \o widgetStateKey(m_widget)}

\* reset() returns: the setup it called ends.
ResetReturns ==
    /\ Len(stack) = 1 /\ stack[1].fn = "setup" /\ stack[1].from = "reset"
    /\ stack' = <<>>

\* C1: as long as the user has moved no handle and dragged no section, the
\* store holds no splitter or header state, only the root window's geometry
\* and state: no layout the machine computed is persisted.
C1_OnlyUserChangesPersisted ==
    ~userActed =>
        \A k \in DOMAIN m_stateSettings.data :
            /\ k \in RootKeys
            /\ m_stateSettings.data[k].kind \notin {"splitter", "header"}

\* C2: a splitter or header that has no name, or the name of the root or of
\* an earlier widget, never has its state written to the store.
C2_ExcludedNeverSaved ==
    /\ \A i \in DOMAIN splitters :
          ExcludedSplitter(i) => splitters[i].lastSaved = EmptyBlob
    /\ \A i \in DOMAIN headers :
          ExcludedHeader(i) => ~headers[i].saved

\* C3: while the manager restores (setup, widgetResized), a splitter or
\* header that has no name, or the name of the root or of an earlier widget,
\* gets no persisted state and no default sizes applied and its customized
\* flag is not set.
C3_ExcludedNeverRestored ==
    [][Running =>
        /\ \A i \in DOMAIN splitters :
              ExcludedSplitter(i) =>
                  /\ splitters'[i].sizes = splitters[i].sizes
                  /\ splitters'[i].customized = splitters[i].customized
        /\ \A i \in DOMAIN headers :
              ExcludedHeader(i) =>
                  /\ headers'[i].sizes = headers[i].sizes
                  /\ headers'[i].customized = headers[i].customized]_vars

\* C4: when setup is about to restore the splitters, the state it reads for
\* a named customized splitter that has saved its state is the blob that
\* splitter wrote last.
C4_RoundTrip ==
    (Running /\ Top.fn = "setup" /\ Top.pc = "splitters" /\ Top.pending = <<>>) =>
        \A i \in DOMAIN splitters :
            (checkWidget(splitters[i]) /\ splitters[i].lastSaved # EmptyBlob) =>
                value(m_stateSettings, widgetStateKey(splitters[i]))
                    = splitters[i].lastSaved

\* C5: when reset() returns, the store holds no key (every key it holds was
\* written before the reset: setup writes none).
C5_ResetClearsStore ==
    [][ResetReturns => DOMAIN m_stateSettings'.data = {}]_vars

\* The sizes a first run gives splitter / header i: constructed, then
\* restored from an empty store.
FirstRunSplitterSizes(i) ==
    RestoreSplitterFrom([group |-> <<>>, data |-> <<>>],
                        NewSplitter(splitters[i].objectName, splitters[i].orientation,
                                    splitters[i].handleWidth)).sizes
FirstRunHeaderSizes(i) ==
    RestoreHeaderFrom([group |-> <<>>, data |-> <<>>],
                      NewHeader(headers[i].objectName, headers[i].isHeaderView)).sizes

\* The manager is connected to every widget that has a name of its own, and
\* each of them has the sizes a first run with an empty store gives it.
FirstRunLayout ==
    /\ \A i \in DOMAIN splitters :
          splitters[i].connected => splitters[i].sizes = FirstRunSplitterSizes(i)
    /\ \A i \in DOMAIN headers :
          (headers[i].connected /\ headers[i].count = Len(FirstRunHeaderSizes(i))) =>
              headers[i].sizes = FirstRunHeaderSizes(i)

\* C6: when reset() returns, every splitter and header the manager is
\* connected to has the sizes a first run with an empty store gives it.
C6_ResetYieldsFirstRunLayout ==
    [][ResetReturns => FirstRunLayout']_vars

\* The number of widgetResized calls in progress.
ResizedDepth == Cardinality({i \in DOMAIN stack : stack[i].fn = "widgetResized"})

\* C7: widgetResized is never nested in itself, and m_resizing is set
\* exactly while it runs: a Resize that reaches eventFilter meanwhile starts
\* no second one.
C7_NoNestedWidgetResized ==
    /\ ResizedDepth <= 1
    /\ m_resizing <=> ResizedDepth = 1

\* A Resize is on its way to eventFilter while widgetResized runs.
C7_Witness ==
    /\ Running /\ Top.fn = "widgetResized" /\ m_resizing
    /\ Top.pending # <<>>

\* C8: while setup restores the state, no widgetResized runs nested in it:
\* the guard covers the programmatic resizes of setup's restoreState().
C8_SetupRestoreNotReentered ==
    \A i \in DOMAIN stack : stack[i].fn = "setup" => i = Len(stack)

\* The spec has exactly one wildcard entry (an entry distributeSpace fills).
Wildcards(sp) ==
    {i \in 1..Len(defaultSplitterSizes(sp)) :
        ResolveSize(defaultSplitterSizes(sp)[i], Extent(sp.orientation)) = -1}
FixedSum(sp) ==
    SumSeq([i \in 1..Len(defaultSplitterSizes(sp)) |->
              IF i \in Wildcards(sp) THEN 0
              ELSE ResolveSize(defaultSplitterSizes(sp)[i], Extent(sp.orientation))])

\* restoreSplitterState is about to apply the default spec of splitter i.
AppliesDefaults(i) ==
    /\ Running /\ Top.pc = "splitters" /\ Top.pending = <<>>
    /\ checkWidget(splitters[i])
    /\ value(m_stateSettings, widgetStateKey(splitters[i])) = EmptyBlob
    /\ defaultSplitterSizes(splitters[i]) # <<>>

\* C9: when the default spec of a splitter with N panes has exactly one
\* wildcard entry, the size applied to the wildcard pane is
\* extent - sum(fixed sizes) - (N + 1) * handle width, and the applied sizes
\* plus the (N + 1) handle widths add up to the extent.
C9_WildcardSize ==
    [][\A i \in DOMAIN splitters :
          (AppliesDefaults(i) /\ Cardinality(Wildcards(splitters[i])) = 1) =>
              LET sp == splitters[i]
                  N == sp.count
                  extent == Extent(sp.orientation)
              IN  /\ Len(splitters'[i].sizes) = N
                  /\ \A w \in Wildcards(sp) :
                        splitters'[i].sizes[w]
                            = extent - FixedSum(sp) - (N + 1) * sp.handleWidth
                  /\ SumSeq(splitters'[i].sizes) + (N + 1) * sp.handleWidth
                        = extent]_vars

\* The defaults of a one-wildcard spec were just applied to a splitter.
C9_Witness ==
    /\ Running /\ Top.pc = "headers"
    /\ \E i \in DOMAIN splitters :
          /\ checkWidget(splitters[i])
          /\ value(m_stateSettings, widgetStateKey(splitters[i])) = EmptyBlob
          /\ Cardinality(Wildcards(splitters[i])) = 1
          /\ splitters[i].count = 3
          /\ splitters[i].sizes = SplitterDefaultSizes(splitters[i])
          /\ \A w \in Wildcards(splitters[i]) : splitters[i].sizes[w] > 0

\* A Show of the root is processed / makes eventFilter call setup.
ShowStep == ~visible /\ visible'
ShowStartsSetup ==
    ShowStep /\ stack' # <<>> /\ stack'[1].fn = "setup" /\ stack'[1].from = "show"

\* C10 as stated: before the first Show nothing is read from or written to
\* the store.
C10_NoStoreAccessBeforeFirstShow ==
    ~everShown => ~storeTouched

\* C10, amended: for a named root a Show runs setup exactly when the manager
\* is not initialized, which is the case only for the first Show, and only
\* when no reset() came before it; a later Show never runs it.  Until the
\* first Show or reset() the store is neither read nor written.
C10_LazyInitialization ==
    /\ [][(ShowStep /\ checkWidget(m_widget)) =>
            /\ ShowStartsSetup <=> ~m_initialized
            /\ ShowStartsSetup => ~everShown
            /\ m_initialized']_vars
    /\ []((~everShown /\ ~m_initialized) => (~storeTouched /\ m_stateSettings.group = <<>>))

\* The first Show of a named root has run setup, which read the store.
C10_Witness ==
    /\ checkWidget(m_widget) /\ everShown /\ m_initialized /\ storeTouched
    /\ Idle /\ visible
    /\ m_stateSettings.group = <<"UiState/win">>

\* A Hide of the root is processed.
HideStep == visible /\ ~visible'

\* The state key of splitter i / header i is written by no widget that
\* saveState saves after it.
SplitterWritesLast(i) ==
    /\ \A j \in DOMAIN splitters :
          (j > i /\ checkWidget(splitters[j]) /\ splitters[j].customized) =>
              widgetStateKey(splitters[j]) # widgetStateKey(splitters[i])
    /\ \A j \in DOMAIN headers :
          (checkWidget(headers[j]) /\ headers[j].customized /\ headers[j].count # 0) =>
              widgetStateKey(headers[j]) # widgetStateKey(splitters[i])
HeaderWritesLast(i) ==
    \A j \in DOMAIN headers :
        (j > i /\ checkWidget(headers[j]) /\ headers[j].customized /\ headers[j].count # 0) =>
            widgetStateKey(headers[j]) # widgetStateKey(headers[i])

\* The store holds something under the key `key` of the open group.
HasKey(settings, key) == FullKey(settings, key) \in DOMAIN settings.data

\* C11 as stated: every Hide of the root leaves the window geometry and
\* state and the state of every named customized splitter and header (with
\* a column) in the store.
C11_EveryHidePersists ==
    [][HideStep =>
        /\ HasKey(m_stateSettings', widgetGeometryKey(m_widget))
        /\ HasKey(m_stateSettings', widgetStateKey(m_widget))
        /\ \A i \in DOMAIN splitters :
              (checkWidget(splitters[i]) /\ splitters[i].customized) =>
                  HasKey(m_stateSettings', widgetStateKey(splitters[i]))
        /\ \A i \in DOMAIN headers :
              (checkWidget(headers[i]) /\ headers[i].customized /\ headers[i].count # 0) =>
                  HasKey(m_stateSettings', widgetStateKey(headers[i]))]_vars

\* C11, amended: a Hide of the root of an initialized manager writes the
\* window geometry and state when the root is a QMainWindow, and the state
\* of every named customized splitter and of every named customized header
\* with a column; what the store then holds under a key is what the last
\* widget saved under it wrote.  A manager that is not initialized writes
\* nothing.
C11_HidePersists ==
    [][HideStep =>
        IF m_initialized
        THEN /\ m_widget.isMainWindow =>
                  /\ value(m_stateSettings', widgetGeometryKey(m_widget))
                        = WindowSaveGeometry
                  /\ HasKey(m_stateSettings', widgetStateKey(m_widget))
             /\ \A i \in DOMAIN splitters :
                   (checkWidget(splitters[i]) /\ splitters[i].customized) =>
                       /\ HasKey(m_stateSettings', widgetStateKey(splitters[i]))
                       /\ SplitterWritesLast(i) =>
                             value(m_stateSettings', widgetStateKey(splitters[i]))
                                 = SplitterSaveState(splitters[i])
             /\ \A i \in DOMAIN headers :
                   (checkWidget(headers[i]) /\ headers[i].customized
                        /\ headers[i].count # 0) =>
                       /\ HasKey(m_stateSettings', widgetStateKey(headers[i]))
                       /\ HeaderWritesLast(i) =>
                             value(m_stateSettings', widgetStateKey(headers[i]))
                                 = HeaderSaveState(headers[i])
        ELSE m_stateSettings' = m_stateSettings]_vars

\* The root of an initialized manager was hidden: the store holds the
\* window's geometry and the state of a customized splitter and header.
C11_Witness ==
    /\ Idle /\ ~visible /\ m_initialized /\ m_widget.isMainWindow
    /\ value(m_stateSettings, widgetGeometryKey(m_widget)) = WindowSaveGeometry
    /\ value(m_stateSettings, widgetStateKey(m_widget)) = WindowSaveState
    /\ \E i \in DOMAIN splitters :
          /\ splitters[i].customized
          /\ value(m_stateSettings, widgetStateKey(splitters[i]))
                = SplitterSaveState(splitters[i])
    /\ \E i \in DOMAIN headers :
          /\ headers[i].customized /\ headers[i].count # 0
          /\ value(m_stateSettings, widgetStateKey(headers[i]))
                = HeaderSaveState(headers[i])

\* C12: the manager never reads and never writes the state key of a header
\* that has no column at that time, whichever handler runs the restore or
\* the save.
C12_ZeroColumnHeaderUntouched ==
    \A h \in DOMAIN headers :
        headers[h].readCount # 0 /\ headers[h].savedCount # 0

\* A connected, customized header whose state is in the store lost all its
\* columns: headerSectionCountChanged ran restoreHeaderState for it.
C12_Witness ==
    /\ Idle /\ ~visible /\ m_initialized
    /\ \E h \in DOMAIN headers :
          /\ headers[h].connected /\ headers[h].customized
          /\ headers[h].count = 0
          /\ headers[h].readCount > 0 /\ headers[h].savedCount > 0
          /\ HasKey(m_stateSettings, widgetStateKey(headers[h]))

\* The keys of the group UiState/<rootName> of this manager: the root's
\* <name>Geometry and the <name>State of the root and of its named widgets.
OwnKeys ==
    {"UiState/" \o m_widget.objectName \o "/" \o m_widget.objectName \o "Geometry"}
    \cup {"UiState/" \o m_widget.objectName \o "/" \o n \o "State" :
            n \in ({m_widget.objectName}
                      \cup {splitters[i].objectName : i \in DOMAIN splitters}
                      \cup {headers[i].objectName : i \in DOMAIN headers}) \ {""}}

\* The keys the manager's handlers read or write, in the group that is open.
ManagerKeys ==
    {FullKey(m_stateSettings, widgetGeometryKey(m_widget)),
     FullKey(m_stateSettings, widgetStateKey(m_widget))}
    \cup {FullKey(m_stateSettings, widgetStateKey(splitters[i])) :
            i \in {j \in DOMAIN splitters : checkWidget(splitters[j])}}
    \cup {FullKey(m_stateSettings, widgetStateKey(headers[i])) :
            i \in {j \in DOMAIN headers : checkWidget(headers[j])}}

\* The keys the step writes: new, or with another value.
WrittenKeys ==
    {k \in DOMAIN m_stateSettings'.data :
        k \notin DOMAIN m_stateSettings.data
        \/ m_stateSettings'.data[k] # m_stateSettings.data[k]}

\* A step of the second manager: the store changes, nothing of this manager.
OtherStep ==
    /\ m_stateSettings'.data # m_stateSettings.data
    /\ UNCHANGED <<m_initialized, m_resizing, splitters, headers, geometry,
                   visible, stack, everShown, storeTouched, userActed, aborted>>

\* The two roots have different names, and no '/' is in a name.
DisjointNames ==
    /\ o_widget.objectName # m_widget.objectName
    /\ ~HasSlash(o_widget.objectName) /\ ~HasSlash(m_widget.objectName)
    /\ \A i \in DOMAIN splitters : ~HasSlash(splitters[i].objectName)
    /\ \A i \in DOMAIN headers : ~HasSlash(headers[i].objectName)

\* The managers do not contend: a step of the second manager writes no key
\* of this manager's group, a step of this manager writes only keys of its
\* group, and the keys its handlers read lie in its group.
NoContention ==
    /\ [][IF OtherStep THEN WrittenKeys \cap OwnKeys = {}
                       ELSE WrittenKeys \subseteq OwnKeys]_vars
    /\ []((m_initialized \/ stack # <<>>) => ManagerKeys \subseteq OwnKeys)

\* C13 as stated: two managers bound to different root widgets never
\* contend on the store they share.
C13_DifferentRootsNeverContend ==
    [][OtherStep => WrittenKeys \cap OwnKeys = {}]_vars

\* C13, amended: two managers bound to root widgets with different object
\* names, no name holding a '/', never contend: every key a manager reads or
\* writes lies in its own group UiState/<rootName>.
C13_DisjointGroups ==
    /\ [][DisjointNames =>
            IF OtherStep THEN WrittenKeys \cap OwnKeys = {}
                         ELSE WrittenKeys \subseteq OwnKeys]_vars
    /\ [](DisjointNames =>
            ((m_initialized \/ stack # <<>>) => ManagerKeys \subseteq OwnKeys))

\* Both managers, differently named, have written their state to the store.
C13_Witness ==
    /\ DisjointNames /\ Idle /\ ~visible
    /\ \E i \in DOMAIN splitters :
          /\ splitters[i].customized
          /\ value(m_stateSettings, widgetStateKey(splitters[i]))
                = SplitterSaveState(splitters[i])
          /\ value(OtherSettings, widgetStateKey(splitters[i]))
                = Blob("splitter", <<7, 7>>)
    /\ value(m_stateSettings, widgetGeometryKey(m_widget)) = WindowSaveGeometry

\* The widgets under the root in setup's enumeration order, splitters before
\* headers: the lower-case names.
EnumeratedNames ==
    [i \in 1..(Len(splitters) + Len(headers)) |->
        IF i <= Len(splitters) THEN toLower(splitters[i].objectName)
        ELSE toLower(headers[i - Len(splitters)].objectName)]

\* Widget i of the enumeration is the first one with its name, which is not
\* empty and not the root's.
FirstOfName(i) ==
    /\ EnumeratedNames[i] # ""
    /\ EnumeratedNames[i] # toLower(m_widget.objectName)
    /\ \A j \in 1..(i - 1) : EnumeratedNames[j] # EnumeratedNames[i]

\* C14: once setup has run, the widgets with listeners attached are exactly
\* the first widgets of each non-empty name in enumeration order (splitters
\* before headers, names compared in lower case, the root's name taken):
\* their names are pairwise distinct across splitters and headers and
\* distinct from the root's, and a duplicate does not stop setup for the
\* widgets after it.
C14_ConnectedNamesUnique ==
    /\ \A i \in DOMAIN splitters :
          splitters[i].connected <=> (m_initialized /\ FirstOfName(i))
    /\ \A i \in DOMAIN headers :
          /\ headers[i].connected <=> (m_initialized /\ FirstOfName(Len(splitters) + i))
          /\ headers[i].viewFiltered <=> headers[i].connected

\* setup has run on a root with a header named like a splitter: the
\* splitter is connected, the header is not.
C14_Witness ==
    /\ m_initialized /\ Idle
    /\ \E i \in DOMAIN splitters, h \in DOMAIN headers :
          /\ checkWidget(headers[h])
          /\ toLower(headers[h].objectName) = toLower(splitters[i].objectName)
          /\ splitters[i].connected /\ ~headers[h].connected

\* C15: no Q_ASSERT on the length of a default-size spec fails: a splitter
\* with a registered spec has as many panes as the spec has entries, and a
\* header the manager restores on every change of its column count, with a
\* registered spec and no persisted state, has as many columns as the spec
\* has entries (or none: it is skipped).
C15_DefaultSpecLengthMatches ==
    /\ ~aborted
    /\ \A i \in DOMAIN splitters :
          defaultSplitterSizes(splitters[i]) # <<>> =>
              Len(defaultSplitterSizes(splitters[i])) = splitters[i].count
    /\ \A h \in DOMAIN headers :
          (headers[h].connected /\ headers[h].count # 0
               /\ defaultHeaderSizes(headers[h]) # <<>>
               /\ value(m_stateSettings, widgetStateKey(headers[h])) = EmptyBlob) =>
              Len(defaultHeaderSizes(headers[h])) = headers[h].count

\* The step is a restore by the manager: a step of setup or widgetResized,
\* or headerSectionCountChanged.
RestoreStep ==
    \/ stack # <<>>
    \/ \E h \in DOMAIN headers : headers'[h].count # headers[h].count

\* C16: a header gets marked customized on a section-resize notification
\* only when it is a HeaderView in an interactive drag, and it is saved
\* then; the notifications of the resizes the manager does itself when it
\* restores (default sizes, persisted blob) write nothing to the store and
\* set no customized flag (only the restore of a persisted blob sets it).
C16_OnlyInteractiveDragCustomizes ==
    [][IF RestoreStep
       THEN /\ m_stateSettings'.data = m_stateSettings.data
            /\ \A h \in DOMAIN headers :
                  (headers'[h].customized /\ ~headers[h].customized) =>
                      value(m_stateSettings, widgetStateKey(headers[h])) # EmptyBlob
       ELSE \A h \in DOMAIN headers :
               (headers'[h].customized /\ ~headers[h].customized) =>
                   /\ headers[h].isHeaderView /\ headers[h].connected
                   /\ value(m_stateSettings', widgetStateKey(headers[h]))
                         = HeaderSaveState(headers'[h])]_vars

\* The manager resized the sections of a connected HeaderView to its default
\* sizes: the header is not customized and the store has no state of it.
C16_Witness ==
    /\ Idle /\ m_initialized
    /\ \E h \in DOMAIN headers :
          /\ headers[h].isHeaderView /\ headers[h].connected
          /\ headers[h].readCount = 2
          /\ headers[h].sizes = <<120, 512>>
          /\ ~headers[h].customized
          /\ ~HasKey(m_stateSettings, widgetStateKey(headers[h]))

\* The store holds a state under the key of splitter i in the root's group.
HasOwnState(i) ==
    ("UiState/" \o m_widget.objectName \o "/" \o widgetStateKey(splitters[i]))
        \in DOMAIN m_stateSettings.data

\* The user moves a handle of splitter i: a step of no restore and no Show
\* or Hide that changes the splitter.
MoveStep(i) ==
    /\ stack = <<>> /\ stack' = <<>>
    /\ visible /\ visible'
    /\ splitters'[i] # splitters[i]

\* C17: when the user moves a connected splitter, its state is in the store
\* at the end of the notification; its key then stays non-empty for ever,
\* and no later restore (Resize, Show, section-count change, reset) gives
\* the splitter other sizes than those of the persisted state: the default
\* sizes are not applied to it again.
C17_MovedSplitterPersistedForever ==
    [][\A i \in DOMAIN splitters :
          /\ (MoveStep(i) /\ splitters[i].connected) =>
                /\ splitters'[i].customized
                /\ value(m_stateSettings', widgetStateKey(splitters[i]))
                      = SplitterSaveState(splitters'[i])
          /\ (splitters[i].connected /\ HasOwnState(i)) =>
                /\ HasOwnState(i)'
                /\ RestoreStep =>
                      \/ splitters'[i].sizes = splitters[i].sizes
                      \/ splitters'[i].sizes
                            = value(m_stateSettings, widgetStateKey(splitters[i])).sizes]_vars

\* The user moved a connected splitter with registered default sizes, and
\* the setup of a later reset() has just restored the splitters: it has the
\* sizes of its persisted state, not the default ones.
C17_Witness ==
    /\ Running /\ Top.fn = "setup" /\ Top.from = "reset" /\ Top.pc = "headers"
    /\ \E i \in DOMAIN splitters :
          /\ splitters[i].connected /\ splitters[i].customized
          /\ defaultSplitterSizes(splitters[i]) # <<>>
          /\ HasOwnState(i)
          /\ splitters[i].sizes = UserSplitterSizes(splitters[i].count, 1)
          /\ splitters[i].sizes # SplitterDefaultSizes(splitters[i])

\* A step of widgetResized: one of its restore functions runs.
ResizedStep ==
    stack # <<>> /\ Top.fn = "widgetResized" /\ Top.pending = <<>>

\* C18: widgetResized only re-applies default sizes to widgets that have no
\* persisted state: none of its steps writes the store or changes a
\* customized flag, a widget with persisted state keeps its sizes, m_resizing
\* is false when it returns, and a Resize of the root that comes when no
\* handler runs starts widgetResized again.
C18_ResizeRestoresDefaultsOnly ==
    /\ [][ResizedStep =>
            /\ m_stateSettings' = m_stateSettings
            /\ \A i \in DOMAIN splitters :
                  /\ splitters'[i].customized = splitters[i].customized
                  /\ \/ splitters'[i].sizes = splitters[i].sizes
                     \/ /\ value(m_stateSettings, widgetStateKey(splitters[i])) = EmptyBlob
                        /\ defaultSplitterSizes(splitters[i]) # <<>>
                        /\ splitters'[i].sizes = SplitterDefaultSizes(splitters[i])
            /\ \A h \in DOMAIN headers :
                  /\ headers'[h].customized = headers[h].customized
                  /\ \/ headers'[h].sizes = headers[h].sizes
                     \/ /\ value(m_stateSettings, widgetStateKey(headers[h])) = EmptyBlob
                        /\ defaultHeaderSizes(headers[h]) # <<>>
            /\ Len(stack') < Len(stack) => ~m_resizing']_vars
    /\ [][(stack = <<>> /\ geometry' # geometry /\ m_initialized) =>
            /\ Len(stack') = 1 /\ stack'[1].fn = "widgetResized"
            /\ m_resizing']_vars

\* widgetResized has run restoreSplitterState after a Resize of the root: a
\* splitter the user moved keeps its sizes, one without persisted state has
\* its default sizes for the new extent.
C18_Witness ==
    /\ Running /\ Len(stack) = 1 /\ Top.fn = "widgetResized"
    /\ Top.widget = Root /\ Top.pc = "headers" /\ m_resizing
    /\ \E i, j \in DOMAIN splitters :
          /\ splitters[i].customized /\ HasOwnState(i)
          /\ splitters[i].sizes = UserSplitterSizes(splitters[i].count, 1)
          /\ splitters[i].sizes # SplitterDefaultSizes(splitters[i])
          /\ ~HasOwnState(j) /\ ~splitters[j].customized
          /\ defaultSplitterSizes(splitters[j]) # <<>>
          /\ splitters[j].sizes = SplitterDefaultSizes(splitters[j])

\* C19: m_initialized is true exactly when the group UiState/<rootName> is
\* the open group of the store, and never more than one group is open,
\* whatever Show, Hide, Resize and reset() have come, reset() before the
\* first Show and repeated reset() included.
C19_InitializedIffGroupOpen ==
    /\ Len(m_stateSettings.group) <= 1
    /\ m_initialized <=>
          m_stateSettings.group = <<"UiState/" \o m_widget.objectName>>

\* reset() was called before the first Show and its setup has returned.
C19_Witness ==
    /\ Idle /\ ~everShown /\ m_initialized
    /\ m_stateSettings.group = <<"UiState/win">>
    /\ \E i \in DOMAIN splitters : splitters[i].connected

\* C20: a manager whose root has no name never becomes initialized: no
\* setup goes past the name test (no listener attached, no group opened, no
\* restore started), the store is never read or written, and the sizes of
\* the splitters and headers are those the widgets were constructed with
\* as long as the user has not changed them.
C20_UnnamedRootNeverInitialized ==
    m_widget.objectName = "" =>
        /\ ~m_initialized /\ ~m_resizing /\ stack = <<>>
        /\ m_stateSettings = [group |-> <<>>, data |-> <<>>]
        /\ ~storeTouched
        /\ \A i \in DOMAIN splitters :
              /\ ~splitters[i].connected /\ ~splitters[i].customized
              /\ splitters[i].lastSaved = EmptyBlob
              /\ ~userActed => \A k \in 1..splitters[i].count : splitters[i].sizes[k] = 0
        /\ \A h \in DOMAIN headers :
              /\ ~headers[h].connected /\ ~headers[h].viewFiltered
              /\ ~headers[h].customized
              /\ headers[h].readCount = -1 /\ headers[h].savedCount = -1
              /\ ~userActed => \A k \in 1..headers[h].count : headers[h].sizes[k] = 100

\* The root without a name was shown and hidden again.
C20_Witness ==
    /\ m_widget.objectName = "" /\ everShown /\ ~visible /\ Idle
    /\ ~m_initialized /\ ~userActed

====
